---- MODULE Spec2Model ----
(***************************************************************************)
(* The real-time captioning pipeline of Lyric-App-main/app.py:             *)
(*   RealTimeCapturer._callback -> capturer.q -> Segmenter.run ->          *)
(*   segments_queue -> STTWorker.run -> {ui_callback, SRTWriter}.          *)
(* Times are integers in milliseconds (the code holds time.time() seconds  *)
(* as floats and multiplies differences by 1000).                          *)
(***************************************************************************)
EXTENDS Integers, Sequences, FiniteSets, TLC

VARIABLES
    cfg,                  \* CONFIG: the values the components are built from
    scen,                 \* the environment: what the device, backend and sinks do
    now,                  \* time.time() in ms
    nframes,              \* number of blocks the device has delivered
    flips,                \* number of speech/silence changes of the sound so far
    q,                    \* RealTimeCapturer.q  (Frame channel)
    cap_ev,               \* what the last _callback did (history)
    cur_segment,          \* Segmenter.run local
    speech_frame_count,   \* Segmenter.run local
    silence_frame_count,  \* Segmenter.run local
    last_activity,        \* Segmenter.run local
    out_queue,            \* segments_queue (Segment channel)
    ev,                   \* what the last Segmenter iteration did (history)
    npushed,              \* number of Segments put on segments_queue (history)
    ndropped,             \* number of Segments dropped at a full segments_queue (history)
    wpc,                  \* per worker: position in STTWorker.run
    wseg,                 \* per worker: seg
    wtext,                \* per worker: text
    seq,                  \* per worker: STTWorker.seq
    captions,             \* texts handed to ui_callback, in call order
    srt,                  \* blocks appended to the subtitle file, in file order
    wev,                  \* per worker: how its last transcribe call ended (history)
    wdone,                \* per worker: number of segments taken off the queue (history)
    main_pc,              \* position of the main thread in main_app
    main_err,             \* what made main_app give up, if anything (history)
    stream,               \* RealTimeCapturer.stream: "closed", "open" or "stopped"
    seg_stop,             \* Segmenter._stop
    wstop,                \* per worker: STTWorker._stop
    seg_pc                \* position of the Segmenter thread

vars == <<cfg, scen, now, nframes, flips, q, cap_ev, cur_segment, speech_frame_count,
          silence_frame_count, last_activity, out_queue, ev, npushed, ndropped,
          wpc, wseg, wtext, seq, captions, srt, wev, wdone,
          main_pc, main_err, stream, seg_stop, wstop, seg_pc>>

capVars == <<now, nframes, flips, q, cap_ev>>
segVars == <<cur_segment, speech_frame_count, silence_frame_count, last_activity, ev>>
workVars == <<wpc, wseg, wtext, seq, captions, srt, wev, wdone>>
mainVars == <<main_pc, main_err, stream, seg_stop, wstop>>
lifeVars == <<main_pc, main_err, stream, seg_stop, wstop, seg_pc>>

(***************************************************************************)
(* Bounds of the model (not program constants).                            *)
(***************************************************************************)
\* blocks delivered in a run where every block is freely speech or silence
MaxFrames == 6
\* blocks the capturer may be ahead of the Segmenter (except where the Frame
\* channel is filled on purpose)
MaxBacklog == 1
\* extra delay, in ms, of a block that the device delivers late
JitterMs == 20
\* extra delay, in ms, of a block delivered after the audio thread stalled
StallMs == 1000
\* speech/silence changes of the sound in the runs with the shipped CONFIG
MaxFlips == 2
\* blocks delivered in the runs with the shipped CONFIG
MaxRunFrames == 28
\* blocks delivered after a channel has been filled on purpose
MaxTail == 2

(***************************************************************************)
(* Program constants.                                                      *)
(***************************************************************************)
FrameQueueMax == 100
SegQueueMax == 50

None == -1

Max(a, b) == IF a > b THEN a ELSE b

\* CONFIG as shipped (sample_rate, block_duration, min_speech_ms, max_silence_ms,
\* segment_timeout_s, stt_workers)
DefaultConfig ==
    [sample_rate |-> 16000, block_duration |-> 30, min_speech_ms |-> 250, max_silence_ms |-> 700,
     segment_timeout_s |-> 10, stt_workers |-> 1]

\* Other values the same constructors accept, small enough that every branch of
\* Segmenter.run is taken within a few blocks.
SmallConfigs ==
    { [sample_rate |-> 16000, block_duration |-> 30, min_speech_ms |-> 50,
       max_silence_ms |-> 50,
       segment_timeout_s |-> 1, stt_workers |-> 1],
      [sample_rate |-> 16000, block_duration |-> 30, min_speech_ms |-> 50,
       max_silence_ms |-> 0,
       segment_timeout_s |-> 0, stt_workers |-> 1] }

Workers == 1 .. cfg.stt_workers

(***************************************************************************)
(* AudioSegment                                                            *)
(***************************************************************************)
NoSegment == [start_time |-> None, end_time |-> None, samples |-> <<>>]

AudioSegment(start_time) ==
    [start_time |-> start_time, end_time |-> None, samples |-> <<>>]

\* an append that stores speech frames only
SegAppendSpeechOnly(seg, pcm_chunk) ==
    IF pcm_chunk.speech THEN [seg EXCEPT !.samples = Append(@, pcm_chunk)] ELSE seg

\* an append that stores nothing
SegAppendNothing(seg, pcm_chunk) == seg

SegAppend(seg, pcm_chunk) ==
    [seg EXCEPT !.samples = Append(@, pcm_chunk)]

(***************************************************************************)
(* queue.Queue(maxsize).put_nowait: raises queue.Full, which every caller  *)
(* catches and logs, when qsize() >= maxsize; the queue is then unchanged. *)
(***************************************************************************)
QueueFull(queue, maxsize) == Len(queue) >= maxsize

\* a full queue that makes room by losing its oldest item
PutDropsOldest(queue, item, maxsize) ==
    IF QueueFull(queue, maxsize) THEN Append(Tail(queue), item) ELSE Append(queue, item)

\* a queue built without maxsize
PutUnbounded(queue, item, maxsize) == Append(queue, item)

\* a queue that puts the new item before the others
PutAtFront(queue, item, maxsize) ==
    IF QueueFull(queue, maxsize) THEN queue ELSE <<item>> \o queue

PutNowait(queue, item, maxsize) ==
    IF QueueFull(queue, maxsize) THEN queue ELSE Append(queue, item)

\* a queue that hands out the item put last (queue.LifoQueue)
QueueGetNewest(queue) ==
    [item |-> queue[Len(queue)], rest |-> SubSeq(queue, 1, Len(queue) - 1)]

\* queue.Queue.get on a non-empty queue: the item put first, and what is left
QueueGet(queue) == [item |-> Head(queue), rest |-> Tail(queue)]

(***************************************************************************)
(* Segmenter.__init__                                                      *)
(***************************************************************************)
\* int(a / b): the quotient rounded down
FloorDiv(a, b) == a \div b

\* math.ceil(a / b) for integers a >= 0, b > 0
CeilDiv(a, b) == (a + b - 1) \div b

min_frames(c) == Max(1, CeilDiv(c.min_speech_ms, c.block_duration))

max_silence_frames(c) == Max(1, CeilDiv(c.max_silence_ms, c.block_duration))

\* segment_timeout_s, in the unit of the model's timestamps
TimeoutMs(c) == c.segment_timeout_s * 1000

(***************************************************************************)
(* The environment of the capturer: which block the device delivers next.  *)
(* A block is [speech, delta]: what the VAD will say of it and how long    *)
(* after the previous block its callback runs.  A scenario delivers        *)
(* scen.nscript blocks on time whose speech flags follow a script, then    *)
(* scen.tail blocks chosen freely.                                         *)
(***************************************************************************)
Block(speech, delta) == [speech |-> speech, delta |-> delta]

Deltas == {cfg.block_duration, cfg.block_duration + JitterMs, cfg.block_duration + StallMs}

\* The end-to-end feed: 2 s silence, 1 s speech, 1 s silence, 2 s speech, 1.5 s silence
E2EScript ==
    << [speech |-> FALSE, ms |-> 2000], [speech |-> TRUE, ms |-> 1000],
       [speech |-> FALSE, ms |-> 1000], [speech |-> TRUE, ms |-> 2000],
       [speech |-> FALSE, ms |-> 1500] >>

PartFrames(c, i) == E2EScript[i].ms \div c.block_duration

RECURSIVE E2EFramesFrom(_, _)
E2EFramesFrom(c, i) ==
    IF i > Len(E2EScript) THEN 0 ELSE PartFrames(c, i) + E2EFramesFrom(c, i + 1)

E2EFrames(c) == E2EFramesFrom(c, 1)

RECURSIVE E2ESpeech(_, _, _)
E2ESpeech(c, n, i) ==
    IF i >= Len(E2EScript) \/ n <= PartFrames(c, i)
    THEN E2EScript[i].speech
    ELSE E2ESpeech(c, n - PartFrames(c, i), i + 1)

\* speech flag of the n-th scripted block
ScriptSpeech(n) ==
    CASE scen.frames = "periodic" -> (n % 3) # 0      \* speech, speech, silence, ...
      [] scen.frames = "e2e" -> E2ESpeech(cfg, n, 1)
      [] OTHER -> FALSE                               \* "silent"

\* speech flag of the last block delivered (FALSE before the first: the room is silent)
LastSpeech == cap_ev.frame.speech

FreeBlocks ==
    CASE scen.frames = "runs" ->
            {Block(s, cfg.block_duration) :
                s \in {b \in BOOLEAN : b = LastSpeech \/ flips < MaxFlips}}
      [] scen.frames = "silent" ->
            {Block(s, cfg.block_duration) : s \in BOOLEAN}
      [] OTHER ->
            {Block(s, d) : s \in BOOLEAN, d \in Deltas}

NextBlocks ==
    IF nframes < scen.nscript
    THEN {Block(ScriptSpeech(nframes + 1), cfg.block_duration)}
    ELSE IF nframes < scen.nscript + scen.tail THEN FreeBlocks ELSE {}

(***************************************************************************)
(* Threads and the process.  main_pc is where the main thread is in        *)
(* main_app:                                                               *)
(*   "backend"          before build_stt_backend()                         *)
(*   "exit1"            sys.exit(1) after build_stt_backend() raised       *)
(*   "start_capturer"   before capturer.start()                            *)
(*   "start_segmenter"  before segmenter.start()                           *)
(*   "start_workers"    in `for w in workers: w.start()`                   *)
(*   "running"          in app.exec_()                                     *)
(*   "stop_segmenter", "stop_capturer", "stop_workers", "sleep"            *)
(*                      the statements of the finally clause               *)
(*   "done"             the finally clause is over and main_app is left    *)
(* seg_pc is "new" before Segmenter.start(), "running" in the loop,        *)
(* "waiting" inside capturer.q.get when _stop was set after the loop last  *)
(* tested it, "exited" after the loop, "dead" after an exception left      *)
(* run().  The threads are daemon threads: they end with the process.      *)
(***************************************************************************)
ProcessAlive == main_pc \notin {"done", "exit1"}

\* RealTimeCapturer.block_size: samples per block
block_size(c) == (c.sample_rate * c.block_duration) \div 1000

\* the sample rates and frame durations (ms) webrtcvad works with
VadRates == {8000, 16000, 32000, 48000}
VadDurations == {10, 20, 30}

\* vad.is_speech(pcm, sample_rate) returns a verdict; otherwise it raises
VadAccepts(c) ==
    /\ c.sample_rate \in VadRates
    /\ block_size(c) \in {(c.sample_rate \div 1000) * d : d \in VadDurations}

(***************************************************************************)
(* RealTimeCapturer._callback                                              *)
(***************************************************************************)
NoFrame == [ts |-> None, speech |-> FALSE]

Frame(ts, speech) == [ts |-> ts, speech |-> speech]

\* History of one callback: the frame made, whether put_nowait raised queue.Full,
\* whether the channel held FrameQueueMax frames before, and whether the channel
\* was left as it was or became what it was plus the frame at its end.
NoCapture ==
    [frame |-> NoFrame, dropped |-> FALSE, at_capacity |-> FALSE, kept |-> TRUE,
     appended |-> FALSE]

Callback ==
    /\ stream = "open"
    /\ Len(q) < scen.backlog
    /\ \E b \in NextBlocks :
         LET ts == now + b.delta
             fr == Frame(ts, b.speech)
         IN  /\ now' = ts
             /\ nframes' = nframes + 1
             /\ flips' = IF b.speech # LastSpeech THEN flips + 1 ELSE flips
             /\ q' = PutNowait(q, fr, FrameQueueMax)
             /\ cap_ev' = [frame |-> fr, dropped |-> QueueFull(q, FrameQueueMax),
                           at_capacity |-> (Len(q) = FrameQueueMax), kept |-> (q' = q),
                           appended |-> (q' = Append(q, fr))]
    /\ UNCHANGED <<cfg, scen, out_queue, npushed, ndropped>>
    /\ UNCHANGED segVars
    /\ UNCHANGED workVars
    /\ UNCHANGED lifeVars

(***************************************************************************)
(* Segmenter.run, one iteration of the loop that got a frame               *)
(***************************************************************************)
\* webrtcvad's verdict on a chunk: a function of the chunk alone
IsSpeech(pcm) == pcm.speech

\* a Segment opened on whatever frame arrives in Idle
StartsSegmentAlways(is_speech) == TRUE

\* `if is_speech:` under `if cur_segment is None:`
StartsSegment(is_speech) == is_speech

\* the closing frame's timestamp as the end_time of a Segment ended by silence
ClosingFrameTs(la, ts) == ts

\* `last_activity or ts`: the end_time of a Segment ended by silence
LastActivityOr(la, ts) == IF la = None \/ la = 0 THEN ts ELSE la

\* the silence branch's end_time used for a flushed Segment too
FlushEndTimeActivity(la, ts) == LastActivityOr(la, ts)

\* `cur_segment.end_time = ts`: the end_time of a Segment flushed by the timeout
FlushEndTime(la, ts) == ts

SilenceEnds(count, c) == count >= max_silence_frames(c)

\* the timeout tested before the silence run: silence ends a Segment only
\* when the timeout does not flush it
TimeoutFirst(silence_ends, timed_out) == silence_ends /\ ~timed_out

\* the order of the two tests: `if silence_frame_count >= ...:` comes first, the
\* timeout is tested in its else branch
SilenceFirst(silence_ends, timed_out) == silence_ends

\* every Segment ended by silence is emitted
LongEnoughAlways(seg, c) == TRUE

\* duration_ms >= self.min_frames * self.capturer.block_duration
LongEnough(seg, c) ==
    (seg.end_time - seg.start_time) >= min_frames(c) * c.block_duration

\* a test of the timeout that never fires
TimedOutNever(ts, seg, c) == FALSE

\* the timeout in seconds compared with a difference in milliseconds
TimedOutUnits(ts, seg, c) == (ts - seg.start_time) > c.segment_timeout_s

\* (ts - cur_segment.start_time) > self.segment_timeout_s
TimedOut(ts, seg, c) == (ts - seg.start_time) > TimeoutMs(c)

\* History of one iteration: the frame taken, the Segment closed on it (if any)
\* and what became of it, the silence run after the frame, the state before,
\* whether segments_queue held SegQueueMax Segments before, and whether it was
\* left as it was or became what it was plus the closed Segment at its end.
NoEvent ==
    [kind |-> "none", frame |-> NoFrame, seg |-> NoSegment, run |-> 0,
     push |-> "none", before |-> NoSegment, run_before |-> 0,
     out_at_capacity |-> FALSE, out_kept |-> TRUE, out_appended |-> FALSE]

Event(kind, fr, seg, run, push) ==
    [kind |-> kind, frame |-> fr, seg |-> seg, run |-> run, push |-> push,
     before |-> cur_segment, run_before |-> silence_frame_count,
     out_at_capacity |-> (Len(out_queue) = SegQueueMax),
     out_kept |-> (out_queue' = out_queue),
     out_appended |-> (out_queue' = Append(out_queue, seg))]

PushResult(queue) == IF QueueFull(queue, SegQueueMax) THEN "dropped" ELSE "emitted"

Reset ==
    /\ cur_segment' = NoSegment
    /\ speech_frame_count' = 0
    /\ silence_frame_count' = 0
    /\ last_activity' = None

Emit(seg) ==
    /\ out_queue' = PutNowait(out_queue, seg, SegQueueMax)
    /\ npushed' = IF QueueFull(out_queue, SegQueueMax) THEN npushed ELSE npushed + 1
    /\ ndropped' = IF QueueFull(out_queue, SegQueueMax) THEN ndropped + 1 ELSE ndropped

SegmenterStep ==
    /\ ProcessAlive
    /\ (seg_pc = "running" /\ ~seg_stop) \/ seg_pc = "waiting"
    /\ q # <<>>
    /\ q' = QueueGet(q).rest
    /\ LET fr == QueueGet(q).item
           ts == fr.ts
           is_speech == IsSpeech(fr)
       IN  IF ~VadAccepts(cfg)
           THEN /\ seg_pc' = "dead"
                /\ UNCHANGED <<cur_segment, speech_frame_count, silence_frame_count,
                               last_activity, out_queue, npushed, ndropped>>
                /\ ev' = Event("vad_error", fr, NoSegment, silence_frame_count, "none")
           ELSE /\ seg_pc' = "running"
                /\ IF cur_segment = NoSegment
                   THEN IF StartsSegment(is_speech)
                        THEN /\ cur_segment' = SegAppend(AudioSegment(ts), fr)
                             /\ speech_frame_count' = 1
                             /\ silence_frame_count' = 0
                             /\ last_activity' = ts
                             /\ UNCHANGED <<out_queue, npushed, ndropped>>
                             /\ ev' = Event("open", fr, NoSegment, 0, "none")
                        ELSE /\ UNCHANGED <<cur_segment, speech_frame_count,
                                            silence_frame_count, last_activity,
                                            out_queue, npushed, ndropped>>
                             /\ ev' = Event("idle_discard", fr, NoSegment, 0, "none")
                   ELSE LET seg == SegAppend(cur_segment, fr)
                            speech1 == IF is_speech THEN speech_frame_count + 1
                                                    ELSE speech_frame_count
                            silence1 == IF is_speech THEN 0 ELSE silence_frame_count + 1
                            activity1 == IF is_speech THEN ts ELSE last_activity
                        IN  IF SilenceFirst(SilenceEnds(silence1, cfg),
                                            TimedOut(ts, seg, cfg))
                            THEN LET ended == [seg EXCEPT !.end_time =
                                                  LastActivityOr(activity1, ts)]
                                 IN  /\ IF LongEnough(ended, cfg)
                                        THEN /\ Emit(ended)
                                             /\ ev' = Event("silence_end", fr, ended, silence1,
                                                            PushResult(out_queue))
                                        ELSE /\ UNCHANGED <<out_queue, npushed, ndropped>>
                                             /\ ev' = Event("silence_end", fr, ended, silence1,
                                                            "discarded")
                                     /\ Reset
                            ELSE IF TimedOut(ts, seg, cfg)
                                 THEN LET ended == [seg EXCEPT !.end_time =
                                                       FlushEndTime(activity1, ts)]
                                      IN  /\ Emit(ended)
                                          /\ ev' = Event("timeout", fr, ended, silence1,
                                                         PushResult(out_queue))
                                          /\ Reset
                                 ELSE /\ cur_segment' = seg
                                      /\ speech_frame_count' = speech1
                                      /\ silence_frame_count' = silence1
                                      /\ last_activity' = activity1
                                      /\ UNCHANGED <<out_queue, npushed, ndropped>>
                                      /\ ev' = Event("append", fr, NoSegment, silence1, "none")
    /\ UNCHANGED <<cfg, scen, now, nframes, flips, cap_ev>>
    /\ UNCHANGED workVars
    /\ UNCHANGED mainVars

\* a loop that, on finding the flag set, flushes the Segment it has open
SegmenterExitFlushing ==
    /\ ProcessAlive
    /\ seg_stop
    /\ seg_pc = "running" \/ (seg_pc = "waiting" /\ q = <<>>)
    /\ seg_pc' = "exited"
    /\ IF cur_segment # NoSegment
       THEN Emit([cur_segment EXCEPT !.end_time = LastActivityOr(last_activity, now)])
       ELSE UNCHANGED <<out_queue, npushed, ndropped>>
    /\ UNCHANGED <<cfg, scen>>
    /\ UNCHANGED capVars
    /\ UNCHANGED segVars
    /\ UNCHANGED workVars
    /\ UNCHANGED mainVars

\* `while not self._stop.is_set()` finds the flag set, at once or after
\* capturer.q.get timed out on the empty queue
SegmenterExit ==
    /\ ProcessAlive
    /\ seg_stop
    /\ seg_pc = "running" \/ (seg_pc = "waiting" /\ q = <<>>)
    /\ seg_pc' = "exited"
    /\ UNCHANGED <<cfg, scen, out_queue, npushed, ndropped>>
    /\ UNCHANGED capVars
    /\ UNCHANGED segVars
    /\ UNCHANGED workVars
    /\ UNCHANGED mainVars

(***************************************************************************)
(* SRTWriter                                                               *)
(***************************************************************************)
\* a formatter whose hour field is not reduced modulo 100
FormatTimestampNoWrap(total_ms) ==
    << total_ms \div (1000 * 60 * 60),
       (total_ms \div (1000 * 60)) % 60,
       (total_ms \div 1000) % 60,
       total_ms % 1000 >>

\* _format_timestamp, on a time in ms (the code's int(ts * 1000)):
\* the fields <<h, m, s, ms>> of "HH:MM:SS,mmm"
FormatTimestamp(total_ms) ==
    << (total_ms \div (1000 * 60 * 60)) % 100,
       (total_ms \div (1000 * 60)) % 60,
       (total_ms \div 1000) % 60,
       total_ms % 1000 >>

\* the block write_entry appends: index line, "start --> end" line, text line
SrtBlock(idx, start_ts, end_ts, text) ==
    [idx |-> idx, start |-> FormatTimestamp(start_ts), end |-> FormatTimestamp(end_ts),
     text |-> text]

\* `seg.end_time or seg.start_time`
EndTimeOr(seg) ==
    IF seg.end_time = None \/ seg.end_time = 0 THEN seg.start_time ELSE seg.end_time

(***************************************************************************)
(* STTWorker.run, for worker w.  wpc[w] is where the thread is:            *)
(*   "get"        at in_queue.get                                          *)
(*   "transcribe" holding seg, before self.stt.transcribe                  *)
(*   "ui"         text is non-empty, before self.ui_callback(text), which  *)
(*                emits a Qt signal and returns                            *)
(*   "write"      before self.srt_writer.write_entry                       *)
(*   "writing"    inside write_entry, the file open for appending          *)
(*   "dead"       an exception left run(): the thread has ended            *)
(*   "new"        before STTWorker.start()                                 *)
(*   "waiting"    inside in_queue.get when _stop was set after the loop    *)
(*                last tested it                                           *)
(*   "exited"     the loop found _stop set and run() returned              *)
(***************************************************************************)
\* what the stub backend returns for any audio
StubText == "caption"

\* how a call of stt.transcribe can end: with a text, with "", or raising
BackendOutcomes ==
    CASE scen.backend = "echo" -> {"text"}
      [] scen.backend = "raises" -> {"raise"}
      [] OTHER -> {"text", "empty", "raise"}

\* how a call of write_entry can end: the block appended, or open() raising OSError
WriteOutcomes == IF scen.io = "ok" THEN {"ok"} ELSE {"ok", "fail"}

\* text after the try/except around transcribe
TranscribedText(outcome) ==
    CASE outcome = "text" -> StubText
      [] outcome = "empty" -> ""
      [] OTHER -> ""            \* except Exception: text, conf = "", 0.0

\* `if text is not None:`
HasTextAlways(text) == TRUE

\* `if text:`
HasText(text) == text # ""

\* where an exception raised by write_entry takes the thread: nothing in run()
\* catches it
AfterWriteError == "dead"

NoWorkerEvent == [outcome |-> "none", caps |-> 0, blocks |-> 0, seq |-> 0]

\* number of ui_callback calls / subtitle blocks made for worker w so far
CapsOf(w) == Cardinality({i \in DOMAIN captions : captions[i].worker = w})
BlocksOf(w) == Cardinality({i \in DOMAIN srt : srt[i].worker = w})

\* a worker that reads the first Segment and leaves it on the queue
PeekSegment(queue) == [item |-> Head(queue), rest |-> queue]

\* self.in_queue.get(timeout=0.5) on a non-empty segments_queue
TakeSegment(queue) == QueueGet(queue)

WorkerGet(w) ==
    /\ ProcessAlive
    /\ (wpc[w] = "get" /\ ~wstop[w]) \/ wpc[w] = "waiting"
    /\ out_queue # <<>>
    /\ wseg' = [wseg EXCEPT ![w] = TakeSegment(out_queue).item]
    /\ out_queue' = TakeSegment(out_queue).rest
    /\ wpc' = [wpc EXCEPT ![w] = "transcribe"]
    /\ wdone' = [wdone EXCEPT ![w] = @ + 1]
    /\ UNCHANGED <<cfg, scen, npushed, ndropped, wtext, seq, captions, srt, wev>>
    /\ UNCHANGED capVars
    /\ UNCHANGED segVars
    /\ UNCHANGED lifeVars

WorkerTranscribe(w) ==
    /\ ProcessAlive
    /\ wpc[w] = "transcribe"
    /\ \E outcome \in BackendOutcomes :
         LET text == TranscribedText(outcome)
         IN  /\ wtext' = [wtext EXCEPT ![w] = text]
             /\ wpc' = [wpc EXCEPT ![w] = IF HasText(text) THEN "ui" ELSE "get"]
             /\ wev' = [wev EXCEPT ![w] = [outcome |-> outcome, caps |-> CapsOf(w),
                                           blocks |-> BlocksOf(w), seq |-> seq[w]]]
    /\ UNCHANGED <<cfg, scen, out_queue, npushed, ndropped, wseg, seq, captions, srt, wdone>>
    /\ UNCHANGED capVars
    /\ UNCHANGED segVars
    /\ UNCHANGED lifeVars

WorkerUi(w) ==
    /\ ProcessAlive
    /\ wpc[w] = "ui"
    /\ captions' = Append(captions, [text |-> wtext[w], worker |-> w,
                                     start_time |-> wseg[w].start_time])
    /\ wpc' = [wpc EXCEPT ![w] = "write"]
    /\ UNCHANGED <<cfg, scen, out_queue, npushed, ndropped, wseg, wtext, seq, srt, wev, wdone>>
    /\ UNCHANGED capVars
    /\ UNCHANGED segVars
    /\ UNCHANGED lifeVars

\* the entry write_entry(idx, start_ts, end_ts, text) of worker w makes
WorkerEntry(w) ==
    [block |-> SrtBlock(seq[w], wseg[w].start_time, EndTimeOr(wseg[w]), wtext[w]),
     worker |-> w,
     start_time |-> wseg[w].start_time]

\* a file opened with "w": what is written replaces the content
FileTruncated(file, entry) == <<entry>>

\* a file opened with "a": what is written goes after the content
FileAppended(file, entry) == Append(file, entry)

\* a sequence number that is never advanced
SeqKept(n) == n

\* `self.seq += 1`
NextSeq(n) == n + 1

\* the workers that have the subtitle file open
InsideWriteEntry == {w \in Workers : wpc[w] = "writing"}

\* write_entry, up to the open() of its `with` statement
WorkerWrite(w) ==
    /\ ProcessAlive
    /\ wpc[w] = "write"
    /\ \E r \in WriteOutcomes :
         wpc' = [wpc EXCEPT ![w] = IF r = "ok" THEN "writing" ELSE AfterWriteError]
    /\ UNCHANGED <<cfg, scen, out_queue, npushed, ndropped, wseg, wtext, seq, captions,
                   srt, wev, wdone>>
    /\ UNCHANGED capVars
    /\ UNCHANGED segVars
    /\ UNCHANGED lifeVars

\* write_entry, the body and the end of its `with` statement: the three write()
\* calls fill the buffer of the file object, which close() puts at the end of
\* the file in one piece; then `self.seq += 1`
WorkerWriteClose(w) ==
    /\ ProcessAlive
    /\ wpc[w] = "writing"
    /\ srt' = FileAppended(srt, WorkerEntry(w))
    /\ seq' = [seq EXCEPT ![w] = NextSeq(@)]
    /\ wpc' = [wpc EXCEPT ![w] = "get"]
    /\ UNCHANGED <<cfg, scen, out_queue, npushed, ndropped, wseg, wtext, captions, wev, wdone>>
    /\ UNCHANGED capVars
    /\ UNCHANGED segVars
    /\ UNCHANGED lifeVars

\* `while not self._stop.is_set()` finds the flag set, at once or after
\* in_queue.get timed out on the empty queue
WorkerExit(w) ==
    /\ ProcessAlive
    /\ wstop[w]
    /\ wpc[w] = "get" \/ (wpc[w] = "waiting" /\ out_queue = <<>>)
    /\ wpc' = [wpc EXCEPT ![w] = "exited"]
    /\ UNCHANGED <<cfg, scen, out_queue, npushed, ndropped, wseg, wtext, seq, captions,
                   srt, wev, wdone>>
    /\ UNCHANGED capVars
    /\ UNCHANGED segVars
    /\ UNCHANGED lifeVars

(***************************************************************************)
(* main_app, from build_stt_backend() on.  scen.boot says what the machine *)
(* offers: "ok", "no_backend" (build_stt_backend raises) or "no_device"    *)
(* (sd.InputStream raises in capturer.start()).                            *)
(***************************************************************************)
\* the statement main_app goes to when an exception leaves the try block
Finally == "stop_segmenter"

\* segmenter.start() placed before capturer.start()
StartOrderSegmenterFirst == <<"start_segmenter", "start_capturer", "start_workers", "running">>

\* the statements of the try block, in order
StartOrder == <<"start_capturer", "start_segmenter", "start_workers", "running">>

\* the statement after statement pc of the try block
AfterStart(pc) ==
    StartOrder[(CHOOSE i \in DOMAIN StartOrder : StartOrder[i] = pc) + 1]

mainRest == <<cfg, scen, out_queue, npushed, ndropped>>

MainBuildBackend ==
    /\ main_pc = "backend"
    /\ IF scen.boot = "no_backend"
       THEN /\ main_pc' = "exit1"
            /\ main_err' = "backend"
       ELSE /\ main_pc' = StartOrder[1]
            /\ UNCHANGED main_err
    /\ UNCHANGED <<stream, seg_stop, wstop, seg_pc>>
    /\ UNCHANGED mainRest
    /\ UNCHANGED capVars
    /\ UNCHANGED segVars
    /\ UNCHANGED workVars

MainStartCapturer ==
    /\ main_pc = "start_capturer"
    /\ IF scen.boot = "no_device"
       THEN /\ main_pc' = Finally
            /\ main_err' = "device"
            /\ UNCHANGED stream
       ELSE /\ main_pc' = AfterStart("start_capturer")
            /\ stream' = "open"
            /\ UNCHANGED main_err
    /\ UNCHANGED <<seg_stop, wstop, seg_pc>>
    /\ UNCHANGED mainRest
    /\ UNCHANGED capVars
    /\ UNCHANGED segVars
    /\ UNCHANGED workVars

MainStartSegmenter ==
    /\ main_pc = "start_segmenter"
    /\ main_pc' = AfterStart("start_segmenter")
    /\ seg_pc' = "running"
    /\ UNCHANGED <<main_err, stream, seg_stop, wstop>>
    /\ UNCHANGED mainRest
    /\ UNCHANGED capVars
    /\ UNCHANGED segVars
    /\ UNCHANGED workVars

\* one round of `for w in workers: w.start()`
MainStartWorker(w) ==
    /\ main_pc = "start_workers"
    /\ wpc[w] = "new"
    /\ \A v \in Workers : v < w => wpc[v] # "new"
    /\ wpc' = [wpc EXCEPT ![w] = "get"]
    /\ main_pc' = IF w = cfg.stt_workers THEN AfterStart("start_workers") ELSE main_pc
    /\ UNCHANGED <<main_err, stream, seg_stop, wstop, seg_pc>>
    /\ UNCHANGED <<wseg, wtext, seq, captions, srt, wev, wdone>>
    /\ UNCHANGED mainRest
    /\ UNCHANGED capVars
    /\ UNCHANGED segVars

\* app.exec_() returns or KeyboardInterrupt is raised in it
MainInterrupt ==
    /\ main_pc = "running"
    /\ main_pc' = Finally
    /\ UNCHANGED <<main_err, stream, seg_stop, wstop, seg_pc>>
    /\ UNCHANGED mainRest
    /\ UNCHANGED capVars
    /\ UNCHANGED segVars
    /\ UNCHANGED workVars

\* where a running loop is when its flag is set: before the test of the flag,
\* or past it, inside get()
Caught(pc, at_get) == IF pc = at_get THEN {at_get, "waiting"} ELSE {pc}

\* segmenter.stop()
MainStopSegmenter ==
    /\ main_pc = "stop_segmenter"
    /\ main_pc' = "stop_capturer"
    /\ seg_stop' = TRUE
    /\ seg_pc' \in Caught(seg_pc, "running")
    /\ UNCHANGED <<main_err, stream, wstop>>
    /\ UNCHANGED mainRest
    /\ UNCHANGED capVars
    /\ UNCHANGED segVars
    /\ UNCHANGED workVars

\* capturer.stop()
MainStopCapturer ==
    /\ main_pc = "stop_capturer"
    /\ main_pc' = "stop_workers"
    /\ stream' = IF stream = "open" THEN "stopped" ELSE stream
    /\ UNCHANGED <<main_err, seg_stop, wstop, seg_pc>>
    /\ UNCHANGED mainRest
    /\ UNCHANGED capVars
    /\ UNCHANGED segVars
    /\ UNCHANGED workVars

\* one round of `for w in workers: w.stop()`
MainStopWorker(w) ==
    /\ main_pc = "stop_workers"
    /\ ~wstop[w]
    /\ \A v \in Workers : v < w => wstop[v]
    /\ wstop' = [wstop EXCEPT ![w] = TRUE]
    /\ \E pc \in Caught(wpc[w], "get") : wpc' = [wpc EXCEPT ![w] = pc]
    /\ main_pc' = IF w = cfg.stt_workers THEN "sleep" ELSE main_pc
    /\ UNCHANGED <<main_err, stream, seg_stop, seg_pc>>
    /\ UNCHANGED <<wseg, wtext, seq, captions, srt, wev, wdone>>
    /\ UNCHANGED mainRest
    /\ UNCHANGED capVars
    /\ UNCHANGED segVars

\* time.sleep(0.2) returns and main_app is left
MainSleepDone ==
    /\ main_pc = "sleep"
    /\ main_pc' = "done"
    /\ UNCHANGED <<main_err, stream, seg_stop, wstop, seg_pc>>
    /\ UNCHANGED mainRest
    /\ UNCHANGED capVars
    /\ UNCHANGED segVars
    /\ UNCHANGED workVars

(***************************************************************************)
(* Initial states                                                          *)
(***************************************************************************)
Scenario(frames, nscript, tail, backlog, backend, io) ==
    [frames |-> frames, nscript |-> nscript, tail |-> tail, backlog |-> backlog,
     backend |-> backend, io |-> io, boot |-> "ok", t0 |-> 0]

\* the state main_app has made when it reaches build_stt_backend()
InitBoot(c, s) ==
    /\ cfg = c
    /\ scen = s
    /\ now = s.t0
    /\ nframes = 0
    /\ flips = 0
    /\ q = <<>>
    /\ cap_ev = NoCapture
    /\ cur_segment = NoSegment
    /\ speech_frame_count = 0
    /\ silence_frame_count = 0
    /\ last_activity = None
    /\ out_queue = <<>>
    /\ ev = NoEvent
    /\ npushed = 0
    /\ ndropped = 0
    /\ wpc = [w \in 1 .. c.stt_workers |-> "new"]
    /\ wseg = [w \in 1 .. c.stt_workers |-> NoSegment]
    /\ wtext = [w \in 1 .. c.stt_workers |-> ""]
    /\ seq = [w \in 1 .. c.stt_workers |-> 1]
    /\ captions = <<>>
    /\ srt = <<>>
    /\ wev = [w \in 1 .. c.stt_workers |-> NoWorkerEvent]
    /\ wdone = [w \in 1 .. c.stt_workers |-> 0]
    /\ main_pc = "backend"
    /\ main_err = "none"
    /\ stream = "closed"
    /\ seg_stop = FALSE
    /\ wstop = [w \in 1 .. c.stt_workers |-> FALSE]
    /\ seg_pc = "new"

\* the state when main_app has reached app.exec_(): the stream is open, the
\* Segmenter and the workers run, nothing has been captured yet
InitWith(c, s) ==
    /\ cfg = c
    /\ scen = s
    /\ now = s.t0
    /\ nframes = 0
    /\ flips = 0
    /\ q = <<>>
    /\ cap_ev = NoCapture
    /\ cur_segment = NoSegment
    /\ speech_frame_count = 0
    /\ silence_frame_count = 0
    /\ last_activity = None
    /\ out_queue = <<>>
    /\ ev = NoEvent
    /\ npushed = 0
    /\ ndropped = 0
    /\ wpc = [w \in 1 .. c.stt_workers |-> "get"]
    /\ wseg = [w \in 1 .. c.stt_workers |-> NoSegment]
    /\ wtext = [w \in 1 .. c.stt_workers |-> ""]
    /\ seq = [w \in 1 .. c.stt_workers |-> 1]
    /\ captions = <<>>
    /\ srt = <<>>
    /\ wev = [w \in 1 .. c.stt_workers |-> NoWorkerEvent]
    /\ wdone = [w \in 1 .. c.stt_workers |-> 0]
    /\ main_pc = "running"
    /\ main_err = "none"
    /\ stream = "open"
    /\ seg_stop = FALSE
    /\ wstop = [w \in 1 .. c.stt_workers |-> FALSE]
    /\ seg_pc = "running"

(***************************************************************************)
(* SpecSeg: capturer and Segmenter. Either any of the small configurations *)
(* with every block freely speech or silence, on time, late or after a     *)
(* stall; or the shipped CONFIG with blocks on time and a sound that       *)
(* changes between speech and silence at most MaxFlips times.              *)
(***************************************************************************)
InitSeg ==
    \/ \E c \in SmallConfigs :
          InitWith(c, Scenario("free", 0, MaxFrames, MaxBacklog, "echo", "ok"))
    \/ InitWith(DefaultConfig, Scenario("runs", 0, MaxRunFrames, MaxBacklog, "echo", "ok"))

NextSeg == Callback \/ SegmenterStep

SpecSeg == InitSeg /\ [][NextSeg]_vars

(***************************************************************************)
(* SpecWork: the whole pipeline on a feed that yields one Segment every    *)
(* three blocks (speech, speech, silence), with a backend that may return  *)
(* a text, return "" or raise (or that always raises), a subtitle file     *)
(* whose writes may fail, and one or two workers.                          *)
(***************************************************************************)
\* Segments the feed of SpecWork yields
MaxWorkSegments == 4

WorkConfigs ==
    { [sample_rate |-> 16000, block_duration |-> 30, min_speech_ms |-> 0,
       max_silence_ms |-> 0, segment_timeout_s |-> 1, stt_workers |-> n] : n \in {1, 2} }

InitWork ==
    \E c \in WorkConfigs, backend \in {"any", "raises"} :
        InitWith(c, Scenario("periodic", 3 * MaxWorkSegments, 0, MaxBacklog,
                             backend, "write_fails"))

Next ==
    \/ Callback
    \/ SegmenterStep
    \/ \E w \in Workers : WorkerGet(w)
    \/ \E w \in Workers : WorkerTranscribe(w)
    \/ \E w \in Workers : WorkerUi(w)
    \/ \E w \in Workers : WorkerWrite(w)
    \/ \E w \in Workers : WorkerWriteClose(w)

SpecWork == InitWork /\ [][Next]_vars

\* the identities a worker can have in WorkConfigs and LifeConfigs
WorkerIds == 1 .. 2

\* the threads run whenever they can: the audio thread and the Segmenter are
\* scheduled, and so is every worker at each of its steps (a backend call and
\* a write_entry call end)
ThreadsFair ==
    /\ WF_vars(Callback)
    /\ WF_vars(SegmenterStep)
    /\ \A w \in WorkerIds :
          /\ WF_vars(w \in Workers /\ WorkerGet(w))
          /\ WF_vars(w \in Workers /\ WorkerTranscribe(w))
          /\ WF_vars(w \in Workers /\ WorkerUi(w))
          /\ WF_vars(w \in Workers /\ WorkerWrite(w))
          /\ WF_vars(w \in Workers /\ WorkerWriteClose(w))

\* SpecWork under fair scheduling
SpecWorkFair == SpecWork /\ ThreadsFair

(***************************************************************************)
(* SpecFull: the pipeline on the same feed for SegQueueMax + 1 Segments,   *)
(* then MaxTail free blocks; the one worker may take Segments at any       *)
(* moment or not at all.                                                   *)
(***************************************************************************)
FullConfig ==
    [sample_rate |-> 16000, block_duration |-> 30, min_speech_ms |-> 0,
     max_silence_ms |-> 0, segment_timeout_s |-> 1, stt_workers |-> 1]

InitFull ==
    InitWith(FullConfig, Scenario("periodic", 3 * (SegQueueMax + 1), MaxTail, MaxBacklog,
                                  "echo", "ok"))

SpecFull == InitFull /\ [][Next]_vars

(***************************************************************************)
(* SpecCap: the capturer delivers FrameQueueMax blocks of silence and then *)
(* MaxTail free blocks, however far the Segmenter lags behind.             *)
(***************************************************************************)
InitCap ==
    InitWith(DefaultConfig, Scenario("silent", FrameQueueMax, MaxTail, FrameQueueMax + 1,
                                     "echo", "ok"))

SpecCap == InitCap /\ [][NextSeg]_vars

(***************************************************************************)
(* SpecE2E: the shipped CONFIG, one worker, the stub backend, sinks that   *)
(* work, and the end-to-end feed delivered on time.                        *)
(***************************************************************************)
InitE2E ==
    InitWith(DefaultConfig, Scenario("e2e", E2EFrames(DefaultConfig), 0, MaxBacklog,
                                     "echo", "ok"))

SpecE2E == InitE2E /\ [][Next]_vars

(***************************************************************************)
(* SpecLife: main_app from build_stt_backend() to its end, on a machine    *)
(* with or without a backend and an input device, with one or two workers  *)
(* at a rate the VAD works with, or one worker at a rate it rejects        *)
(* (--sample-rate 44100); the feed yields MaxLifeSegments Segments, and    *)
(* app.exec_() may end at any moment.                                      *)
(***************************************************************************)
\* Segments the feed of SpecLife yields
MaxLifeSegments == 2

LifeConfigs ==
    { [sample_rate |-> 16000, block_duration |-> 30, min_speech_ms |-> 0,
       max_silence_ms |-> 0, segment_timeout_s |-> 1, stt_workers |-> n] : n \in {1, 2} }
    \cup
    { [sample_rate |-> 44100, block_duration |-> 30, min_speech_ms |-> 0,
       max_silence_ms |-> 0, segment_timeout_s |-> 1, stt_workers |-> 1] }

InitLife ==
    \E c \in LifeConfigs, boot \in {"ok", "no_backend", "no_device"} :
        InitBoot(c, [Scenario("periodic", 3 * MaxLifeSegments, 0, MaxBacklog, "echo", "ok")
                         EXCEPT !.boot = boot])

NextLife ==
    \/ MainBuildBackend
    \/ MainStartCapturer
    \/ MainStartSegmenter
    \/ \E w \in Workers : MainStartWorker(w)
    \/ MainInterrupt
    \/ MainStopSegmenter
    \/ MainStopCapturer
    \/ \E w \in Workers : MainStopWorker(w)
    \/ MainSleepDone
    \/ Callback
    \/ SegmenterStep
    \/ SegmenterExit
    \/ \E w \in Workers : WorkerGet(w)
    \/ \E w \in Workers : WorkerTranscribe(w)
    \/ \E w \in Workers : WorkerUi(w)
    \/ \E w \in Workers : WorkerWrite(w)
    \/ \E w \in Workers : WorkerWriteClose(w)
    \/ \E w \in Workers : WorkerExit(w)

SpecLife == InitLife /\ [][NextLife]_vars

\* the main thread runs on through main_app whenever it can (app.exec_() may
\* last for ever), and a loop that can leave does so
MainFair ==
    /\ WF_vars(MainBuildBackend)
    /\ WF_vars(MainStartCapturer)
    /\ WF_vars(MainStartSegmenter)
    /\ WF_vars(MainStopSegmenter)
    /\ WF_vars(MainStopCapturer)
    /\ WF_vars(MainSleepDone)
    /\ WF_vars(SegmenterExit)
    /\ \A w \in WorkerIds :
          /\ WF_vars(w \in Workers /\ MainStartWorker(w))
          /\ WF_vars(w \in Workers /\ MainStopWorker(w))
          /\ WF_vars(w \in Workers /\ WorkerExit(w))

\* SpecLife under fair scheduling
SpecLifeFair == SpecLife /\ ThreadsFair /\ MainFair

(***************************************************************************)
(* SpecFmt: one worker and sinks that work, on the feed speech, speech,    *)
(* silence for MaxFmtSegments Segments, started at a time.time() just      *)
(* before a second, a minute, an hour or the hundredth hour is over: the   *)
(* times _format_timestamp is applied to lie on both sides of it.          *)
(***************************************************************************)
\* Segments the feed of SpecFmt yields
MaxFmtSegments == 2

\* time.time(), in ms, when the stream is started
FmtStarts ==
    {0, 1000 - 100, 60 * 1000 - 100, 60 * 60 * 1000 - 100, 100 * 60 * 60 * 1000 - 100,
     2 * 100 * 60 * 60 * 1000 - 100}

InitFmt ==
    \E t0 \in FmtStarts :
        InitWith(FullConfig,
                 [Scenario("periodic", 3 * MaxFmtSegments, 0, MaxBacklog, "echo", "ok")
                      EXCEPT !.t0 = t0])

SpecFmt == InitFmt /\ [][Next]_vars

(***************************************************************************)
(* SpecFifo: capturer and Segmenter on MaxFifoFrames blocks, each freely   *)
(* speech or silence, on time, late or after a stall, with the Segmenter   *)
(* up to MaxFifoBacklog frames behind.                                     *)
(***************************************************************************)
\* blocks delivered in SpecFifo
MaxFifoFrames == 5
\* blocks the capturer may be ahead of the Segmenter in SpecFifo
MaxFifoBacklog == 3

FifoConfig ==
    [sample_rate |-> 16000, block_duration |-> 30, min_speech_ms |-> 50,
     max_silence_ms |-> 50, segment_timeout_s |-> 1, stt_workers |-> 1]

InitFifo ==
    InitWith(FifoConfig, Scenario("free", 0, MaxFifoFrames, MaxFifoBacklog, "echo", "ok"))

SpecFifo == InitFifo /\ [][NextSeg]_vars

(***************************************************************************)
(* Properties.  What they read of a Segment is computed from the Segment   *)
(* itself, not from the Segmenter's counters.                              *)
(***************************************************************************)
\* every Segment some component holds, and the one closed by the last iteration
SegmentsHeld ==
    ({cur_segment, ev.seg} \cup {out_queue[i] : i \in DOMAIN out_queue}
        \cup {wseg[w] : w \in Workers}) \ {NoSegment}

\* the number of silence frames at the end of a sequence of frames
RECURSIVE TrailingSilence(_)
TrailingSilence(samples) ==
    IF samples = <<>> \/ samples[Len(samples)].speech
    THEN 0
    ELSE 1 + TrailingSilence(SubSeq(samples, 1, Len(samples) - 1))

\* the least n >= 1 with n * block_duration >= max_silence_ms
SilenceThreshold(c) ==
    CHOOSE n \in 1 .. (c.max_silence_ms + 1) :
        /\ n * c.block_duration >= c.max_silence_ms
        /\ n = 1 \/ (n - 1) * c.block_duration < c.max_silence_ms

\* end_time - start_time of a closed Segment, in ms
Span(seg) == seg.end_time - seg.start_time

\* the last iteration took a frame while a Segment was open
InSegmentStep == ev.before # NoSegment

\* ... and on that frame the silence run reached the threshold
SilenceFired ==
    /\ InSegmentStep
    /\ ~ev.frame.speech
    /\ TrailingSilence(ev.before.samples) + 1 >= SilenceThreshold(cfg)

\* ... and on that frame the Segment had been open for longer than the timeout
TimeoutExceeded ==
    /\ InSegmentStep
    /\ ev.frame.ts - ev.before.start_time > cfg.segment_timeout_s * 1000

\* the Segment closed by the last iteration went onto segments_queue if there was room
PushedIfRoom ==
    IF ev.out_at_capacity THEN ev.out_kept ELSE ev.out_appended

SegmenterIdle ==
    /\ cur_segment = NoSegment
    /\ speech_frame_count = 0
    /\ silence_frame_count = 0
    /\ last_activity = None

\* C1: a Segment is opened only when a speech frame is taken in Idle; the first
\* frame stored in any Segment is a speech frame whose timestamp is the Segment's
\* start_time; a silence frame taken in Idle is discarded and changes nothing.
C1_OpenedOnSpeechOnly ==
    /\ \A seg \in SegmentsHeld :
          /\ seg.samples # <<>>
          /\ seg.samples[1].speech
          /\ seg.samples[1].ts = seg.start_time
    /\ (ev.before = NoSegment /\ cur_segment # NoSegment) =>
          /\ ev.frame.speech
          /\ cur_segment = [start_time |-> ev.frame.ts, end_time |-> None,
                            samples |-> <<ev.frame>>]
    /\ (ev.before = NoSegment /\ ev.frame # NoFrame /\ ~ev.frame.speech) =>
          /\ SegmenterIdle
          /\ ev.out_kept
    /\ cur_segment = NoSegment =>
          (speech_frame_count = 0 /\ silence_frame_count = 0 /\ last_activity = None)

\* C1 witness: a Segment has been emitted and a silence frame was then discarded in Idle
C1_Witness ==
    /\ out_queue # <<>>
    /\ ev.before = NoSegment
    /\ ev.frame # NoFrame
    /\ ~ev.frame.speech

\* C2: an open Segment is closed by silence exactly on the frame that brings the
\* run of silence frames at its end to ceil(max_silence_ms / block_duration), at
\* least 1 (24 for 700 ms and 30 ms): never with a shorter run, and the run of an
\* open Segment stays below it.
C2_ClosedAtSilenceThreshold ==
    /\ (cfg.max_silence_ms = 700 /\ cfg.block_duration = 30) => SilenceThreshold(cfg) = 24
    /\ ev.kind = "silence_end" =>
          /\ TrailingSilence(ev.seg.samples) = SilenceThreshold(cfg)
          /\ cur_segment = NoSegment
    /\ cur_segment # NoSegment =>
          /\ TrailingSilence(cur_segment.samples) < SilenceThreshold(cfg)
          /\ TrailingSilence(cur_segment.samples) = silence_frame_count
    /\ SilenceFired => ev.kind = "silence_end"

\* C2 witness: with the shipped CONFIG a Segment is closed on its 24th silence frame
C2_Witness ==
    /\ cfg = DefaultConfig
    /\ ev.kind = "silence_end"
    /\ TrailingSilence(ev.seg.samples) = 24
    /\ TrailingSilence(ev.before.samples) = 23

\* C3 as stated: whenever a frame is taken while a Segment has been open for longer
\* than segment_timeout_s, the Segment is closed on that frame with end_time the
\* frame's timestamp and is put on segments_queue if there is room.
C3_AsStated ==
    TimeoutExceeded =>
        /\ ev.seg # NoSegment
        /\ ev.seg.end_time = ev.frame.ts
        /\ PushedIfRoom
        /\ cur_segment = NoSegment

\* C3 as amended: the same, for the frames on which the silence run has not
\* reached the threshold (the silence-end rule is applied first).
C3_ForcedFlush ==
    (TimeoutExceeded /\ ~SilenceFired) =>
        /\ ev.seg # NoSegment
        /\ ev.seg.samples = Append(ev.before.samples, ev.frame)
        /\ ev.seg.start_time = ev.before.start_time
        /\ ev.seg.end_time = ev.frame.ts
        /\ PushedIfRoom
        /\ SegmenterIdle

\* C3 witness: a Segment shorter than min_speech_ms is flushed by the timeout on a
\* speech frame and emitted
C3_Witness ==
    /\ TimeoutExceeded
    /\ ~SilenceFired
    /\ ev.frame.speech
    /\ Span(ev.seg) < cfg.min_speech_ms
    /\ ev.out_appended

\* C4: a Segment ended by silence whose span is shorter than min_speech_ms is not
\* put on segments_queue, and the Segmenter is Idle again.
C4_ShortSegmentDiscarded ==
    (SilenceFired /\ Span(ev.seg) < cfg.min_speech_ms) =>
        /\ ev.out_kept
        /\ ~ev.out_appended
        /\ SegmenterIdle

\* C4 witness: a Segment with more than one frame of speech is ended by silence
\* with a span shorter than min_speech_ms
C4_Witness ==
    /\ SilenceFired
    /\ ev.seg # NoSegment
    /\ Span(ev.seg) > 0
    /\ Span(ev.seg) < cfg.min_speech_ms

\* C5 as stated: a Segment ended by silence whose span is at least min_speech_ms
\* is put on segments_queue whenever there is room.
C5_AsStated ==
    (SilenceFired /\ Span(ev.seg) >= cfg.min_speech_ms) => PushedIfRoom

\* C6: after a transcribe call that raised or returned "", the worker has made no
\* ui_callback call and no subtitle block for that Segment, its sequence number is
\* what it was, and its loop runs on; with a backend that always raises there is
\* never a caption or a block, however many Segments the workers take.
C6_BackendFailureIsolated ==
    /\ \A w \in Workers :
          wev[w].outcome \in {"raise", "empty"} =>
              /\ wpc[w] \in {"get", "transcribe"}
              /\ CapsOf(w) = wev[w].caps
              /\ BlocksOf(w) = wev[w].blocks
              /\ seq[w] = wev[w].seq
    /\ scen.backend = "raises" =>
          /\ captions = <<>>
          /\ srt = <<>>
          /\ \A w \in Workers : wpc[w] # "dead" /\ seq[w] = 1

\* C6 witness: with a backend that always raises, a worker whose call raised has
\* taken a further Segment and is back at in_queue.get
C6_Witness ==
    /\ scen.backend = "raises"
    /\ \E w \in Workers :
          /\ wdone[w] >= 2
          /\ wev[w].outcome = "raise"
          /\ wpc[w] = "get"

\* C7 as stated: a failure of write_entry (or of the caption sink) does not leave
\* the worker loop: no worker thread ever ends.
C7_AsStated ==
    \A w \in Workers : wpc[w] # "dead"

\* C8: when segments_queue holds SegQueueMax Segments, putting one more (ended by
\* silence or flushed by the timeout) drops the new Segment and leaves the queue as
\* it was; the Segmenter is Idle again and takes the next frame; the queue never
\* holds more than SegQueueMax Segments.
C8_FullSegmentQueueDrops ==
    /\ Len(out_queue) <= SegQueueMax
    /\ (ev.seg # NoSegment /\ ev.push # "discarded") =>
          /\ ev.out_at_capacity => (ev.push = "dropped" /\ ev.out_kept /\ ~ev.out_appended)
          /\ ~ev.out_at_capacity => (ev.push = "emitted" /\ ev.out_appended)
          /\ SegmenterIdle
    /\ q # <<>> => ENABLED SegmenterStep

\* C8 witness: after a Segment ended by silence was dropped at the full queue, the
\* Segmenter went on and a Segment flushed by the timeout was dropped as well
C8_Witness ==
    /\ ndropped >= 2
    /\ ev.kind = "timeout"
    /\ ev.push = "dropped"
    /\ Len(out_queue) = SegQueueMax

\* C9: the callback returns whether or not the Frame channel has room: with
\* FrameQueueMax frames queued the new frame is dropped and the queue is left as it
\* was, otherwise the frame is added at its end; the channel never holds more than
\* FrameQueueMax frames.
C9_FullFrameQueueDrops ==
    /\ Len(q) <= FrameQueueMax
    /\ cap_ev.frame # NoFrame =>
          /\ cap_ev.at_capacity => (cap_ev.dropped /\ cap_ev.kept /\ ~cap_ev.appended)
          /\ ~cap_ev.at_capacity => (~cap_ev.dropped /\ cap_ev.appended)
    /\ (NextBlocks # {} /\ Len(q) = FrameQueueMax) => ENABLED Callback

\* C9 witness: a frame was dropped at the full channel, which still holds
\* FrameQueueMax frames
C9_Witness ==
    /\ cap_ev.dropped
    /\ cap_ev.at_capacity
    /\ Len(q) = FrameQueueMax

\* the end-to-end feed has been delivered and everything made of it has been handled
E2EDone ==
    /\ nframes = E2EFrames(cfg)
    /\ q = <<>>
    /\ out_queue = <<>>
    /\ \A w \in Workers : wpc[w] = "get"

\* C10: on the end-to-end feed, delivered on time to a Segmenter that is never
\* more than MaxBacklog frames behind (so that no frame is dropped), the subtitle
\* file ends with exactly two blocks, with indices 1 and 2 in that order, each
\* holding the stub's text (and never holds anything else on the way).
C10_EndToEndTwoBlocks ==
    /\ Len(srt) <= 2
    /\ \A i \in DOMAIN srt : srt[i].block.idx = i /\ srt[i].block.text = StubText
    /\ E2EDone => (Len(srt) = 2 /\ Len(captions) = 2 /\ cur_segment = NoSegment)

\* C10 witness: the feed is over and the file holds blocks 1 and 2
C10_Witness ==
    /\ E2EDone
    /\ Len(srt) = 2
    /\ srt[1].block.idx = 1
    /\ srt[2].block.idx = 2
    /\ srt[1].start_time < srt[2].start_time

\* the Segments that were put on segments_queue and are still held somewhere
EmittedSegments ==
    ({out_queue[i] : i \in DOMAIN out_queue} \cup {wseg[w] : w \in Workers}
        \cup (IF ev.push = "emitted" THEN {ev.seg} ELSE {})) \ {NoSegment}

\* C11: every Segment put on segments_queue, whether ended by silence or flushed
\* by the timeout, holds at least one frame and has end_time set, not before its
\* start_time (frame timestamps never decrease in the model).
C11_EmittedSegmentWellFormed ==
    /\ \A seg \in EmittedSegments :
          /\ seg.samples # <<>>
          /\ seg.end_time # None
          /\ seg.end_time >= seg.start_time
    /\ ev.push = "emitted" => ev.kind \in {"silence_end", "timeout"}

\* C11 witness: a Segment ended by silence was emitted with end_time before the
\* timestamp of its last frame and after start_time
C11_Witness ==
    /\ ev.kind = "silence_end"
    /\ ev.push = "emitted"
    /\ ev.seg \in EmittedSegments
    /\ ev.seg.end_time > ev.seg.start_time
    /\ ev.seg.end_time < ev.seg.samples[Len(ev.seg.samples)].ts

\* the fields of one "HH:MM:SS,mmm" timestamp
WellFormedTimestamp(t) ==
    /\ Len(t) = 4
    /\ t[1] \in 0 .. 99
    /\ t[2] \in 0 .. 59
    /\ t[3] \in 0 .. 59
    /\ t[4] \in 0 .. 999

\* index line, "start --> end" line, text line
WellFormedBlock(b) ==
    /\ b.idx \in Nat \ {0}
    /\ WellFormedTimestamp(b.start)
    /\ WellFormedTimestamp(b.end)
    /\ b.text # ""

\* C12: the subtitle file only grows at its end: whenever it changes, a worker
\* inside write_entry has added exactly one well-formed block, made of the call's
\* arguments, after the content the file had, which stays as it was; with one
\* worker the calls come one after the other with indices 1, 2, 3, ... and the
\* n-th block of the file is the one of the n-th call.
C12_AppendOnly ==
    [][srt' # srt =>
         \E w \in InsideWriteEntry :
             /\ srt' = Append(srt, WorkerEntry(w))
             /\ SubSeq(srt', 1, Len(srt)) = srt
             /\ WellFormedBlock(WorkerEntry(w).block)
             /\ cfg.stt_workers = 1 => WorkerEntry(w).block.idx = Len(srt) + 1]_vars

\* C12 witness: one worker has made three calls and the file holds the blocks
\* 1, 2, 3 in the order of the calls
C12_Witness ==
    /\ cfg.stt_workers = 1
    /\ Len(srt) = 3
    /\ \A i \in 1 .. 3 : srt[i].block.idx = i /\ WellFormedBlock(srt[i].block)
    /\ srt[1].start_time < srt[2].start_time
    /\ srt[2].start_time < srt[3].start_time
    /\ seq[1] = 4

\* C13 as stated: no two workers are inside write_entry, with the subtitle file
\* open, at the same time.
C13_AsStated ==
    Cardinality(InsideWriteEntry) <= 1

\* C14 as stated: the indices of the blocks of the subtitle file, in file order,
\* start at 1 and increase, whatever the number of workers.
C14_AsStated ==
    /\ srt # <<>> => srt[1].block.idx = 1
    /\ \A i \in 1 .. (Len(srt) - 1) : srt[i].block.idx < srt[i + 1].block.idx

\* the indices of the blocks worker w has written, in file order
RECURSIVE IndicesOf(_, _)
IndicesOf(w, file) ==
    IF file = <<>> THEN <<>>
    ELSE IF Head(file).worker = w
         THEN <<Head(file).block.idx>> \o IndicesOf(w, Tail(file))
         ELSE IndicesOf(w, Tail(file))

\* C15: each worker numbers its own blocks: the k-th block written by a worker
\* has index k, its sequence number is one more than the number of blocks it has
\* written (so it moves by one with each block of its own and with nothing
\* else, another worker's block included), a transcribe call that raised or
\* returned "" leaves it as it was and one that returned a text, once handled,
\* has advanced it by one; with one worker the file's indices are 1, 2, ..., k.
C15_PerWorkerSequence ==
    /\ \A w \in Workers :
          /\ IndicesOf(w, srt) = [k \in 1 .. BlocksOf(w) |-> k]
          /\ seq[w] = BlocksOf(w) + 1
          /\ wev[w].outcome \in {"raise", "empty"} => seq[w] = wev[w].seq
          /\ (wev[w].outcome = "text" /\ wpc[w] \in {"get", "transcribe"}) =>
                 seq[w] = wev[w].seq + 1
    /\ cfg.stt_workers = 1 => \A i \in DOMAIN srt : srt[i].block.idx = i

\* C15 witness: of two workers, one has written two blocks and then had a
\* transcribe call fail, the other has written one block in between
C15_Witness ==
    /\ cfg.stt_workers = 2
    /\ \E w, v \in Workers :
          /\ w # v
          /\ IndicesOf(w, srt) = <<1, 2>>
          /\ IndicesOf(v, srt) = <<1>>
          /\ srt[2].worker = v
          /\ wev[w].outcome \in {"raise", "empty"}
          /\ seq[w] = 3
          /\ seq[v] = 2

\* position i comes before position j in a sequence of captions or of blocks,
\* and holds the result of a Segment created after the one of position j
Overtaken(list, i, j) ==
    /\ i < j
    /\ list[i].start_time > list[j].start_time

\* C16: the captions and the blocks of two Segments can come in the reverse of
\* the order in which the Segments were created only with more than one worker
\* and only when different workers handled them (a worker's own results keep
\* the order of creation); the witness shows that this does happen.
C16_OutOfOrderAcrossWorkers ==
    /\ \A i, j \in DOMAIN captions :
          Overtaken(captions, i, j) =>
              (cfg.stt_workers > 1 /\ captions[i].worker # captions[j].worker)
    /\ \A i, j \in DOMAIN srt :
          Overtaken(srt, i, j) =>
              (cfg.stt_workers > 1 /\ srt[i].worker # srt[j].worker)

\* C16 witness: with two workers, the caption and the block of the Segment
\* created second were delivered before those of the Segment created first
C16_Witness ==
    /\ cfg.stt_workers = 2
    /\ Len(captions) >= 2
    /\ Len(srt) >= 2
    /\ Overtaken(captions, 1, 2)
    /\ Overtaken(srt, 1, 2)
    /\ captions[1].start_time = srt[1].start_time
    /\ captions[2].start_time = srt[2].start_time

\* a sequence of Segments, captions or blocks is in the order of creation
InCreationOrder(list) ==
    \A i, j \in DOMAIN list : i < j => list[i].start_time < list[j].start_time

\* C17: segments_queue holds the Segments in the order of their creation and
\* the workers take them from its front: every Segment a worker has taken was
\* created before every Segment still queued; with one worker the captions and
\* the blocks are in the order of creation of their Segments.
C17_FifoDelivery ==
    /\ InCreationOrder(out_queue)
    /\ \A w \in Workers : \A i \in DOMAIN out_queue :
          wseg[w] # NoSegment => wseg[w].start_time < out_queue[i].start_time
    /\ cfg.stt_workers = 1 => (InCreationOrder(captions) /\ InCreationOrder(srt))

\* C17 witness: the one worker, with two Segments waiting in the queue, has
\* delivered the captions and blocks of two earlier Segments
C17_Witness ==
    /\ cfg.stt_workers = 1
    /\ Len(out_queue) >= 2
    /\ Len(captions) = 2
    /\ Len(srt) = 2
    /\ srt[2].start_time < out_queue[1].start_time

\* the positions of a thread that has not been started or has ended
NotRunning == {"new", "exited", "dead"}

\* C18 as stated: once the shutdown sequence of main_app is over, the Segmenter
\* thread and every worker thread have left their loops: none is still in its
\* loop or inside a call of the backend.
C18_AsStated ==
    main_pc = "done" =>
        /\ seg_pc \in NotRunning
        /\ \A w \in Workers : wpc[w] \in NotRunning

\* no thread has ever been started and no frame has ever been put on capturer.q
NothingStarted ==
    /\ seg_pc = "new"
    /\ \A w \in Workers : wpc[w] = "new"
    /\ stream = "closed"
    /\ nframes = 0
    /\ q = <<>>
    /\ out_queue = <<>>

\* C19: when build_stt_backend() raises or the input stream cannot be opened,
\* the Segmenter thread and the worker threads are never started and no frame
\* is ever enqueued; without a backend main_app ends in sys.exit(1), without a
\* device it goes from capturer.start() to its finally clause.
C19_StartupErrorsAbort ==
    /\ scen.boot # "ok" => NothingStarted
    /\ main_err # "none" => NothingStarted
    /\ scen.boot = "no_backend" => main_pc \in {"backend", "exit1"}
    /\ scen.boot = "no_device" =>
          main_pc \in {"backend", "start_capturer", "stop_segmenter", "stop_capturer",
                       "stop_workers", "sleep", "done"}
    /\ (scen.boot = "no_device" /\ main_pc \notin {"backend", "start_capturer"}) =>
          main_err = "device"

\* C19 witness: the input stream could not be opened, main_app has been through
\* its finally clause and is over
C19_Witness ==
    /\ scen.boot = "no_device"
    /\ main_err = "device"
    /\ main_pc = "done"
    /\ seg_stop
    /\ NothingStarted

\* C20 as stated: a frame size the VAD rejects is refused before any thread is
\* started and is never first met inside the running Segmenter thread: the
\* Segmenter thread is never ended by the exception of the VAD.
C20_AsStated ==
    ~VadAccepts(cfg) => seg_pc # "dead"

\* C21 as stated: each component runs before the one upstream of it produces:
\* the Segmenter thread has been started when the first frame is put on
\* capturer.q, and every worker thread has been started when the Segmenter
\* thread runs (and so can put a Segment on segments_queue).
C21_AsStated ==
    /\ nframes > 0 => seg_pc # "new"
    /\ seg_pc # "new" => \A w \in Workers : wpc[w] # "new"

\* a Segment with this start_time is on segments_queue, with a worker, or has
\* a caption or a block
Delivered(start_time) ==
    \/ \E i \in DOMAIN out_queue : out_queue[i].start_time = start_time
    \/ \E w \in Workers : wseg[w].start_time = start_time
    \/ \E i \in DOMAIN captions : captions[i].start_time = start_time
    \/ \E i \in DOMAIN srt : srt[i].start_time = start_time

\* C22: once the Segmenter has found its stop flag set and left its loop, nothing
\* more is put on segments_queue (Segments only leave it) and the Segmenter's
\* state stays as it is; a Segment open at that moment is on no queue, with no
\* worker, and has no caption and no block, then and ever after.
C22_OpenSegmentDiscarded ==
    /\ []((seg_pc = "exited" /\ cur_segment # NoSegment) =>
            ~Delivered(cur_segment.start_time))
    /\ [][seg_pc = "exited" =>
            /\ seg_pc' = "exited"
            /\ cur_segment' = cur_segment
            /\ npushed' = npushed
            /\ ndropped' = ndropped
            /\ out_queue' = out_queue \/ out_queue' = Tail(out_queue)]_vars

\* C22 witness: the Segmenter left its loop with a Segment open; the workers
\* have handled the Segment emitted before and left their loops too, and the
\* file holds that one block
C22_Witness ==
    /\ seg_pc = "exited"
    /\ cur_segment # NoSegment
    /\ npushed = 1
    /\ out_queue = <<>>
    /\ \A w \in Workers : wpc[w] = "exited"
    /\ Len(srt) = 1
    /\ srt[1].start_time < cur_segment.start_time

\* a hundred hours, in ms
HundredHoursMs == 100 * 60 * 60 * 1000

\* the fields <<HH, MM, SS, mmm>> are those of time t (ms)
FieldsOf(f, t) ==
    /\ f[4] = t % 1000
    /\ f[3] = (t \div 1000) % 60
    /\ f[2] = (t \div 60000) % 60
    /\ f[1] = (t \div 3600000) % 100
    /\ f[4] < 1000 /\ f[3] < 60 /\ f[2] < 60 /\ f[1] < 100
    /\ \A i \in 1 .. 4 : f[i] >= 0
    /\ ((f[1] * 60 + f[2]) * 60 + f[3]) * 1000 + f[4] = t % HundredHoursMs

\* C23: the start fields of every block of the file, and the end fields of the
\* block a worker has just written, are mmm = t mod 1000, SS = (t div 1000) mod
\* 60, MM = (t div 60000) mod 60, HH = (t div 3600000) mod 100 of the Segment's
\* time t, each within its range and together t modulo a hundred hours; a time a
\* hundred hours later is formatted to the same fields.
C23_TimestampFields ==
    /\ \A i \in DOMAIN srt :
          /\ srt[i].start_time >= 0
          /\ FieldsOf(srt[i].block.start, srt[i].start_time)
          /\ FormatTimestamp(srt[i].start_time + HundredHoursMs) = srt[i].block.start
          /\ FormatTimestamp(srt[i].start_time % HundredHoursMs) = srt[i].block.start
    /\ \A w \in Workers : \A i \in DOMAIN srt :
          (srt[i].worker = w /\ srt[i].start_time = wseg[w].start_time) =>
              FieldsOf(srt[i].block.end, EndTimeOr(wseg[w]))

\* C23 witness: a block that starts 70 ms before the hundredth hour is over is
\* followed by one that starts 20 ms after it
C23_Witness ==
    /\ Len(srt) = 2
    /\ srt[1].start_time = HundredHoursMs - 70
    /\ srt[1].block.start = <<99, 59, 59, 930>>
    /\ srt[2].start_time = HundredHoursMs + 20
    /\ srt[2].block.start = <<0, 0, 0, 20>>
    /\ srt[2].block.end = <<0, 0, 0, 50>>

\* the timestamp of the last speech frame of a sequence of frames
RECURSIVE LastSpeechTs(_)
LastSpeechTs(samples) ==
    IF samples = <<>> THEN None
    ELSE IF samples[Len(samples)].speech THEN samples[Len(samples)].ts
         ELSE LastSpeechTs(SubSeq(samples, 1, Len(samples) - 1))

\* C24: on a frame taken while a Segment is open, the silence test comes first:
\* when the silence run reaches the threshold and the timeout is exceeded on the
\* same frame, the Segment is ended by silence (end_time the last speech frame's
\* timestamp, discarded if shorter than min_speech_ms); the timeout flushes only
\* when the silence test did not fire; and one frame puts at most one Segment
\* on segments_queue.
C24_SilenceEndFirst ==
    /\ (SilenceFired /\ TimeoutExceeded) =>
          /\ ev.kind = "silence_end"
          /\ ev.seg.end_time = LastSpeechTs(ev.seg.samples)
          /\ ev.seg.end_time < ev.frame.ts
          /\ Span(ev.seg) < cfg.min_speech_ms => (ev.push = "discarded" /\ ev.out_kept)
    /\ ev.kind = "timeout" => (TimeoutExceeded /\ ~SilenceFired)
    /\ ev.out_kept \/ ev.out_appended
    /\ npushed + ndropped <= nframes - Len(q)

\* C24 witness: a Segment long enough to be kept is ended by silence on a frame
\* that comes after the timeout, and is emitted with end_time before that frame
C24_Witness ==
    /\ SilenceFired
    /\ TimeoutExceeded
    /\ ev.kind = "silence_end"
    /\ ev.push = "emitted"
    /\ ev.seg.end_time - ev.seg.start_time <= cfg.segment_timeout_s * 1000

\* the last frame of a sequence of frames
LastFrame(samples) == samples[Len(samples)]

\* C25: a Segment ended by silence has as end_time the timestamp of the last
\* speech frame appended to it, which is before the timestamp of the silence
\* frame that closed it, while that frame and the silence frames before it are
\* among its frames; a Segment flushed by the timeout has as end_time the
\* timestamp of the frame that triggered the flush.
C25_EndTime ==
    /\ ev.kind = "silence_end" =>
          /\ ev.seg.end_time = LastSpeechTs(ev.seg.samples)
          /\ LastFrame(ev.seg.samples) = ev.frame
          /\ ~ev.frame.speech
          /\ ev.seg.end_time < ev.frame.ts
          /\ TrailingSilence(ev.seg.samples) >= 1
    /\ ev.kind = "timeout" =>
          /\ LastFrame(ev.seg.samples) = ev.frame
          /\ ev.seg.end_time = ev.frame.ts
    /\ \A i \in DOMAIN out_queue :
          \/ /\ ~LastFrame(out_queue[i].samples).speech
             /\ out_queue[i].end_time = LastSpeechTs(out_queue[i].samples)
          \/ out_queue[i].end_time = LastFrame(out_queue[i].samples).ts

\* C25 witness: a Segment with three speech frames, closed by its second silence
\* frame, is emitted with the third frame's timestamp as end_time
C25_Witness ==
    /\ ev.kind = "silence_end"
    /\ ev.push = "emitted"
    /\ Len(ev.seg.samples) = 5
    /\ TrailingSilence(ev.seg.samples) = 2
    /\ ev.seg.end_time = ev.seg.samples[3].ts
    /\ ev.seg.samples[5] = ev.frame

\* the frames are in the order of capture, each one block (on time, late or
\* after a stall) after the one before: none is missing, none comes twice
Contiguous(samples) ==
    \A i \in 1 .. (Len(samples) - 1) : (samples[i + 1].ts - samples[i].ts) \in Deltas

\* C26: capturer.q holds the frames in the order of capture, the newest last,
\* and the Segmenter takes the oldest; a frame taken while a Segment is open
\* becomes the last frame of that Segment, speech or silence; so the frames of
\* every Segment, open or closed, are the frames taken from its opening speech
\* frame on, in the order of capture, none missing and none twice (no frame is
\* dropped here, the channel being far from full).
C26_ContiguousFrames ==
    /\ Contiguous(q)
    /\ (q # <<>> /\ cap_ev.appended) => LastFrame(q).ts = now
    /\ (q # <<>> /\ ev.frame # NoFrame) => (Head(q).ts - ev.frame.ts) \in Deltas
    /\ InSegmentStep =>
          /\ ev.seg # NoSegment => ev.seg.samples = Append(ev.before.samples, ev.frame)
          /\ cur_segment # NoSegment =>
                cur_segment.samples = Append(ev.before.samples, ev.frame)
          /\ (ev.seg # NoSegment) # (cur_segment # NoSegment)
    /\ \A seg \in SegmentsHeld :
          /\ Contiguous(seg.samples)
          /\ seg.samples[1].speech
          /\ seg.samples[1].ts = seg.start_time
    /\ cur_segment # NoSegment =>
          /\ ev.frame = LastFrame(cur_segment.samples)
          /\ q # <<>> => Contiguous(Append(cur_segment.samples, Head(q)))

\* C26 witness: a Segment of at least four frames, one of them captured after
\* a stall, is emitted on a silence frame that was taken while later frames
\* were already waiting in capturer.q
C26_Witness ==
    /\ ev.push = "emitted"
    /\ Len(ev.seg.samples) >= 4
    /\ ~LastFrame(ev.seg.samples).speech
    /\ Len(q) >= 1
    /\ cap_ev.frame.ts - ev.frame.ts > cfg.block_duration
    /\ \E i \in DOMAIN ev.seg.samples :
          ev.seg.samples[i].ts - ev.seg.samples[1].ts > StallMs

\* C27: after every iteration of the Segmenter, either no Segment is open or the
\* open Segment's last frame is at most segment_timeout_s after its start_time
\* and the run of silence frames at its end is shorter than the threshold.
C27_OpenSegmentBounded ==
    cur_segment # NoSegment =>
        /\ LastFrame(cur_segment.samples).ts - cur_segment.start_time
               <= cfg.segment_timeout_s * 1000
        /\ TrailingSilence(cur_segment.samples) < SilenceThreshold(cfg)
        /\ silence_frame_count < max_silence_frames(cfg)

\* C27 witness: after one Segment was flushed by the timeout, the next one is
\* open with several frames, a silence frame last
C27_Witness ==
    /\ out_queue # <<>>
    /\ out_queue[1].end_time = LastFrame(out_queue[1].samples).ts
    /\ cur_segment # NoSegment
    /\ Len(cur_segment.samples) >= 3
    /\ TrailingSilence(cur_segment.samples) = 1

\* the number of Segments workers 1 .. n have taken off segments_queue
RECURSIVE TakenBy(_)
TakenBy(n) == IF n = 0 THEN 0 ELSE wdone[n] + TakenBy(n - 1)

TotalTaken == TakenBy(cfg.stt_workers)

\* no two entries of a sequence of captions or of blocks are of the same Segment
OnePerSegment(list) ==
    \A i, j \in DOMAIN list : list[i].start_time = list[j].start_time => i = j

\* C28: a Segment put on segments_queue is taken by at most one worker and
\* handled at most once: the Segments taken and those still queued are together
\* the Segments put, no two workers hold the same Segment, none holds one that
\* is still queued, no Segment has two captions or two blocks, and there are
\* never more captions or blocks than Segments put (or taken).
C28_ConsumedOnce ==
    /\ TotalTaken + Len(out_queue) = npushed
    /\ \A w, v \in Workers :
          (w # v /\ wseg[w] # NoSegment) => wseg[w].start_time # wseg[v].start_time
    /\ \A w \in Workers : \A i \in DOMAIN out_queue :
          wseg[w].start_time # out_queue[i].start_time
    /\ OnePerSegment(captions)
    /\ OnePerSegment(srt)
    /\ Len(srt) <= Len(captions)
    /\ Len(captions) <= TotalTaken
    /\ TotalTaken <= npushed

\* C28 witness: two workers have both taken Segments, every Segment put has
\* been taken, and each of the four has its caption and its block
C28_Witness ==
    /\ cfg.stt_workers = 2
    /\ wdone[1] >= 1
    /\ wdone[2] >= 1
    /\ npushed = 4
    /\ TotalTaken = 4
    /\ Len(captions) = 4
    /\ Len(srt) = 4

\* C29 as stated: while the pipeline runs, every Segment put on segments_queue
\* is eventually taken by a worker, whatever became of the Segments before it
\* (backend error, empty text, failed subtitle write): whenever Segments are
\* waiting, the queue is eventually empty again (the feed is finite).
C29_AsStated ==
    (out_queue # <<>>) ~> (out_queue = <<>>)

\* the stop flag of the Segmenter and of every worker is set
AllFlagsSet == seg_stop /\ \A w \in Workers : wstop[w]

\* the Segmenter thread and every worker thread have left their loops (or
\* were never in them)
AllLoopsLeft == seg_pc \in NotRunning /\ \A w \in Workers : wpc[w] \in NotRunning

\* C30 as stated: once the stop flags of the Segmenter and of every worker are
\* set, every loop eventually finds its flag set and is left, under fair
\* scheduling and with backend calls that end.
C30_AsStated ==
    AllFlagsSet ~> AllLoopsLeft

====
